---------------------------- MODULE Spec2Model ----------------------------
(***************************************************************************)
(* Model of the Obsidian plugin GitOnlyAutoCommitPlugin (src/main.ts):     *)
(* the scheduler (reschedule and its repeating timer), the commit routine  *)
(* (commitAndPush and the four git commands it awaits), the settings       *)
(* change handler, and onload.                                             *)
(*                                                                         *)
(* The plugin runs on one JavaScript event loop.  Every action below is    *)
(* one run-to-completion step: the code between two suspension points      *)
(* (await) of a handler, or a whole synchronous callback.                  *)
(*                                                                         *)
(* Text is a sequence of one-character strings.  A JavaScript value that   *)
(* may be undefined is a record [t |-> "undefined"] or                     *)
(* [t |-> "string", v |-> text].  A number is a record: NaN, +/-Infinity,  *)
(* or an exact fraction n/d in lowest terms (IEEE rounding error of the    *)
(* products in reschedule is not modelled).                                *)
(***************************************************************************)
EXTENDS Integers, Sequences, FiniteSets, TLC

(***************************************************************************)
(* Bounds of the model.                                                    *)
(***************************************************************************)
\* setInterval hands out a fresh handle each time; at most this many are created
MaxHandles == 3
\* settings-change handlers suspended in saveSettings at the same time
MaxPendingSaves == 2

(***************************************************************************)
(* JavaScript values                                                       *)
(***************************************************************************)
Undefined == [t |-> "undefined"]

Str(s) == [t |-> "string", v |-> s]

\* ToBoolean of a string-or-undefined value: undefined and '' are falsy
Truthy(x) == x.t = "string" /\ x.v # <<>>

\* a || b
Or(a, b) == IF Truthy(a) THEN a ELSE b

\* a ?? b
Nullish(a, b) == IF a.t = "undefined" THEN b ELSE a

\* e?.f for a record e: undefined when e has no property f
Get(e, f) == IF f \in DOMAIN e THEN e[f] ELSE Undefined

(***************************************************************************)
(* Text                                                                    *)
(***************************************************************************)
WhiteSpace == {" ", "\n", "\t", "\r"}

\* the lower-case form of the upper-case letters
LowerCase ==
    [A |-> "a", B |-> "b", C |-> "c", D |-> "d", E |-> "e", F |-> "f", G |-> "g",
     H |-> "h", I |-> "i", J |-> "j", K |-> "k", L |-> "l", M |-> "m", N |-> "n",
     O |-> "o", P |-> "p", Q |-> "q", R |-> "r", S |-> "s", T |-> "t", U |-> "u",
     V |-> "v", W |-> "w", X |-> "x", Y |-> "y", Z |-> "z"]

\* the canonical form of a character under the regular-expression flag i
Lower(c) == IF c \in DOMAIN LowerCase THEN LowerCase[c] ELSE c

\* the number of white-space characters of s from position i on, and up to it
RECURSIVE SpaceFrom(_, _)
SpaceFrom(s, i) ==
    IF i <= Len(s) /\ s[i] \in WhiteSpace THEN 1 + SpaceFrom(s, i + 1) ELSE 0

RECURSIVE SpaceUpTo(_, _)
SpaceUpTo(s, i) ==
    IF i >= 1 /\ s[i] \in WhiteSpace THEN 1 + SpaceUpTo(s, i - 1) ELSE 0

\* String.prototype.trim
Trim(s) == SubSeq(s, SpaceFrom(s, 1) + 1, Len(s) - SpaceUpTo(s, Len(s)))

\* s.slice(0, n)
Slice(s, n) == SubSeq(s, 1, IF Len(s) < n THEN Len(s) ELSE n)

\* the text n copies of the character c
Repeat(c, n) == [i \in 1..n |-> c]

(***************************************************************************)
(* Numbers                                                                 *)
(***************************************************************************)
NaN == [k |-> "nan"]

Infinity(neg) == [k |-> "inf", neg |-> neg]

Abs(n) == IF n < 0 THEN -n ELSE n

RECURSIVE GCD(_, _)
GCD(a, b) == IF b = 0 THEN a ELSE GCD(b, a % b)

\* the finite number n/d (d > 0), in lowest terms
Frac(n, d) ==
    LET g == GCD(Abs(n), d)
    IN  [k |-> "fin", n |-> n \div g, d |-> d \div g]

Int2Num(n) == Frac(n, 1)

isFinite(x) == x.k = "fin"

\* x <= 0 and x >= 0 (both false of NaN)
LeqZero(x) == (x.k = "fin" /\ x.n <= 0) \/ (x.k = "inf" /\ x.neg)

GeqZero(x) == (x.k = "fin" /\ x.n >= 0) \/ (x.k = "inf" /\ ~x.neg)

\* x * m for an integer m > 0
Times(x, m) == IF x.k = "fin" THEN Frac(x.n * m, x.d) ELSE x

\* Math.round of a finite number: the nearest integer, halves towards +Infinity
MathRound(x) == (2 * x.n + x.d) \div (2 * x.d)

MathMax(a, b) == IF a < b THEN b ELSE a

RECURSIVE Pow10(_)
Pow10(n) == IF n = 0 THEN 1 ELSE 10 * Pow10(n - 1)

Digits == <<"0","1","2","3","4","5","6","7","8","9">>

IsDigit(c) == \E i \in DOMAIN Digits : Digits[i] = c

DigitVal(c) == (CHOOSE i \in DOMAIN Digits : Digits[i] = c) - 1

\* the number of leading characters of s that are digits
RECURSIVE LeadingDigits(_)
LeadingDigits(s) ==
    IF s # <<>> /\ IsDigit(Head(s)) THEN 1 + LeadingDigits(Tail(s)) ELSE 0

\* the value of a string of decimal digits
RECURSIVE DigitsVal(_)
DigitsVal(s) ==
    IF s = <<>> THEN 0 ELSE 10 * DigitsVal(SubSeq(s, 1, Len(s) - 1)) + DigitVal(s[Len(s)])

Drop(s, n) == SubSeq(s, n + 1, Len(s))

StartsWith(s, p) == Len(s) >= Len(p) /\ SubSeq(s, 1, Len(p)) = p

InfinityWord == <<"I","n","f","i","n","i","t","y">>

\* The longest numeric prefix of s (StrDecimalLiteral without an exponent part:
\* the inputs of the model hold no "e"): [v |-> its value, used |-> its length];
\* v is NaN when s starts with no number.
NumericPrefix(s) ==
    LET signed == s # <<>> /\ Head(s) \in {"-", "+"}
        neg    == s # <<>> /\ Head(s) = "-"
        sl     == IF signed THEN 1 ELSE 0
        body   == Drop(s, sl)
        ni     == LeadingDigits(body)
        dotted == Len(body) > ni /\ body[ni + 1] = "."
        nf     == IF dotted THEN LeadingDigits(Drop(body, ni + 1)) ELSE 0
        mant   == DigitsVal(SubSeq(body, 1, ni)) * Pow10(nf)
                  + DigitsVal(SubSeq(body, ni + 2, ni + 1 + nf))
    IN  IF StartsWith(body, InfinityWord)
        THEN [v |-> Infinity(neg), used |-> sl + Len(InfinityWord)]
        ELSE IF ni + nf = 0
        THEN [v |-> NaN, used |-> 0]
        ELSE [v |-> Frac(IF neg THEN -mant ELSE mant, Pow10(nf)),
              used |-> sl + ni + (IF dotted THEN 1 ELSE 0) + nf]

\* parseFloat(s): leading white space is skipped, what follows the number is ignored
parseFloat(s) == NumericPrefix(Drop(s, SpaceFrom(s, 1))).v

\* Number(x) for a value read from the persisted settings: a number, null or a string
Number(x) ==
    CASE x.k = "null" -> Int2Num(0)
      [] x.k = "string" ->
            LET t == Trim(x.v)
                p == NumericPrefix(t)
            IN  IF t = <<>> THEN Int2Num(0)
                ELSE IF p.used = Len(t) THEN p.v ELSE NaN
      [] OTHER -> x

(***************************************************************************)
(* Program constants                                                       *)
(***************************************************************************)
DEFAULT_SETTINGS == [intervalMinutes |-> Int2Num(5)]

\* the least period of the timer, in milliseconds
MinPeriodMs == 10000

\* the error notice shows at most this many characters of the diagnostic text
NoticeLimit == 400

\* autoIntervalHandle = null; the handles window.setInterval returns are positive
Null == 0

VerifyCmd == "git rev-parse --is-inside-work-tree"

StageCmd == "git add -A"

CommitCmd == "git commit -m"

PushCmd == "git push"

AlreadyRunningNotice == <<"o","n","l","y"," ","c","o","m","m","i","t",":"," ","a","l","r","e","a","d","y"," ","r","u","n","n","i","n","g">>

DesktopOnlyNotice == <<"A","v","a","i","l","a","b","l","e"," ","o","n"," ","d","e","s","k","t","o","p"," ","o","n","l","y">>

ErrorNoticePrefix == <<"o","n","l","y"," ","c","o","m","m","i","t",":"," ","E","r","r","o","r","\n">>

\* String(e) of a plain object
ObjectObject == <<"[","o","b","j","e","c","t"," ","O","b","j","e","c","t","]">>

\* the source text of the regular expression /nothing to commit/i
NothingToCommit == <<"n","o","t","h","i","n","g"," ","t","o"," ","c","o","m","m","i","t">>

(***************************************************************************)
(* Inputs of the model                                                     *)
(***************************************************************************)
\* what git writes to its standard error
Stderrs ==
    { <<>>,
      <<"f","a","t","a","l",":"," ","u","n","a","b","l","e"," ","t","o"," ","a","u","t","h">>,
      <<"\n">>,
      <<"h","i","n","t",":"," ","N","o","t","h","i","n","g"," ","T","o"," ","C","o","m","m","i","t">>,
      <<" ">> \o Repeat("x", NoticeLimit + 1) \o <<"\n">> }

\* what git writes to its standard output
Stdouts ==
    { <<>>,
      <<"n","o","t","h","i","n","g"," ","t","o"," ","c","o","m","m","i","t",","," ","w","o","r","k","i","n","g"," ","t","r","e","e"," ","c","l","e","a","n">>,
      <<"O","n"," ","b","r","a","n","c","h"," ","m","a","i","n">> }

\* the messages of the errors child_process.exec reports: the command exited
\* with a code other than 0, and the command could not be started
CommandFailed == <<"C","o","m","m","a","n","d"," ","f","a","i","l","e","d",":"," ","g","i","t">>

SpawnFailed == <<"s","p","a","w","n"," ","g","i","t"," ","E","N","O","E","N","T">>

NoError == [t |-> "null"]

ExecError(m) == [t |-> "error", message |-> Str(m)]

\* what exec hands to its callback: (error, stdout, stderr)
ExecOk == [error |-> NoError, stdout |-> <<>>, stderr |-> <<>>]

ExecFailures ==
    { [error |-> ExecError(CommandFailed), stdout |-> so, stderr |-> se] :
        so \in Stdouts, se \in Stderrs }
    \cup { [error |-> ExecError(SpawnFailed), stdout |-> <<>>, stderr |-> <<>>] }

ExecOutcomes == {ExecOk} \cup ExecFailures

\* the vault adapters: a FileSystemAdapter with its base path, or another adapter
Adapters ==
    { [fs |-> TRUE,  basePath |-> <<"/","v">>],
      [fs |-> TRUE,  basePath |-> <<>>],
      [fs |-> FALSE, basePath |-> <<>>] }

\* what loadData resolves to: no intervalMinutes key, or one with a JSON value
LoadedData ==
    { [has |-> FALSE, intervalMinutes |-> NaN] }
    \cup { [has |-> TRUE, intervalMinutes |-> v] :
             v \in { Frac(500025, 1000000), Int2Num(-1), Infinity(FALSE), [k |-> "null"],
                     [k |-> "string", v |-> <<"a","b","c">>],
                     [k |-> "string", v |-> <<" ","0",".","2">>] } }

\* what the user types into the interval field
ChangeInputs ==
    { <<"0">>, <<"0",".","1">>, <<"-","3">>, <<>>, <<"I","n","f","i","n","i","t","y">> }

\* what new Date() reads from the clock: getMonth() (0 for January), getDate(),
\* getFullYear(), getHours() and getMinutes()
DateOf(month, date, fullYear, hours, minutes) ==
    [month |-> month, date |-> date, fullYear |-> fullYear, hours |-> hours,
     minutes |-> minutes]

\* the clock readings of the whole plugin
Dates == { DateOf(2, 7, 2024, 9, 5), DateOf(11, 31, 1999, 23, 59) }

\* the clock readings for the commit message alone
AllDates ==
    { DateOf(m, d, y, h, mi) :
        m \in 0..11, d \in {1, 7, 10, 31}, y \in {1999, 2024},
        h \in {0, 9, 12, 23}, mi \in {0, 5, 9, 10, 59} }

NoDate == DateOf(0, 0, 0, 0, 0)

(***************************************************************************)
(* State                                                                   *)
(***************************************************************************)
VARIABLES
    onloadPc,            \* where onload is: "unloaded", "loading", "loaded", "failed"
    adapter,             \* this.app.vault.adapter
    settings,            \* this.settings
    isRunning,           \* this.isRunning
    autoIntervalHandle,  \* this.autoIntervalHandle
    timers,              \* the live repeating timers of the window: [id, ms]
    nextHandle,          \* the handle the next window.setInterval returns
    registered,          \* the handles given to registerInterval
    cycles,              \* the invocations of commitAndPush suspended in an await
    lastCycle,           \* the record of the last finished cycle, until the next starts
    pendingSaves,        \* the change handlers suspended in saveSettings, each
                         \* with the interval it wrote to the settings
    overlap,             \* the change handlers that ran while these were suspended
    lastEvent            \* what the last step was and what it did

vars == <<onloadPc, adapter, settings, isRunning, autoIntervalHandle, timers,
          nextHandle, registered, cycles, lastCycle, pendingSaves, overlap, lastEvent>>

schedVars == <<autoIntervalHandle, timers, nextHandle, registered>>

cycleVars == <<isRunning, cycles, lastCycle>>

saveVars == <<pendingSaves, overlap>>

NoSettings == [intervalMinutes |-> NaN, loaded |-> FALSE]

\* rejected: whether the promise commitAndPush returned was rejected
NoCycle == [result |-> "none", cmds |-> <<>>, notices |-> <<>>, recovered |-> <<>>,
            rejected |-> FALSE]

NoOutcome == [error |-> NoError, stdout |-> <<>>, stderr |-> <<>>, none |-> TRUE]

\* The change handlers since the last moment none was suspended: how many
\* started ("none", "one", "two"; "other" for more, or when saveData rejected for
\* one of them), and the interval the latest of them wrote to the settings.
NoOverlap == [handlers |-> "none", latest |-> NaN]

OneMore == [none |-> "one", one |-> "two", two |-> "other", other |-> "other"]

\* a step: its kind, whether it entered the commit routine past the busy guard,
\* the notices it showed, the commands it started, the result of the last
\* finished cycle when it began ("none" while a cycle was in flight), and for
\* the completion of a command, which command, with what outcome, and whether
\* the cycle ended; for a step of a change handler, the interval that handler
\* wrote to the settings, and the handlers that overlapped with it
Event(type, admitted, notices, issued) ==
    [type |-> type, admitted |-> admitted, notices |-> notices, issued |-> issued,
     after |-> lastCycle.result, cmd |-> "", outcome |-> NoOutcome, finished |-> FALSE,
     wrote |-> NaN, overlap |-> NoOverlap]

Init ==
    /\ onloadPc = "unloaded"
    /\ adapter \in Adapters
    /\ settings = NoSettings
    /\ isRunning = FALSE
    /\ autoIntervalHandle = Null
    /\ timers = {}
    /\ nextHandle = 1
    /\ registered = {}
    /\ cycles = <<>>
    /\ lastCycle = NoCycle
    /\ pendingSaves = <<>>
    /\ overlap = NoOverlap
    /\ lastEvent = [type |-> "init", admitted |-> FALSE, notices |-> <<>>, issued |-> <<>>,
                    after |-> "none", cmd |-> "", outcome |-> NoOutcome, finished |-> FALSE,
                    wrote |-> NaN, overlap |-> NoOverlap]

(***************************************************************************)
(* Scheduler: reschedule                                                   *)
(***************************************************************************)
\* reschedule without the clearInterval
ClearedTimers_none(handle, live) == live

\* window.clearInterval of the recorded handle, if there is one
ClearedTimers(handle, live) ==
    IF handle # Null THEN {t \in live : t.id # handle} ELSE live

\* the early return: no timer for this interval
TimerDisabled(minutes) == ~isFinite(minutes) \/ LeqZero(minutes)

\* the period without the floor of ten seconds
PeriodMs_noFloor(minutes) == MathRound(Times(Times(minutes, 60), 1000))

\* Math.max(10_000, Math.round(minutes * 60 * 1000))
PeriodMs(minutes) ==
    MathMax(MinPeriodMs, MathRound(Times(Times(minutes, 60), 1000)))

\* reschedule(), reading the settings object s
Reschedule(s) ==
    LET live    == ClearedTimers(autoIntervalHandle, timers)
        minutes == Number(s.intervalMinutes)
    IN  IF TimerDisabled(minutes)
        THEN /\ autoIntervalHandle' = Null
             /\ timers' = live
             /\ UNCHANGED <<nextHandle, registered>>
        ELSE /\ autoIntervalHandle' = nextHandle
             /\ timers' = live \cup {[id |-> nextHandle, ms |-> PeriodMs(minutes)]}
             /\ nextHandle' = nextHandle + 1
             /\ registered' = registered \cup {nextHandle}

(***************************************************************************)
(* Commit routine: commitAndPush and run                                   *)
(***************************************************************************)
\* a vault path that falls back to the current directory
getVaultPath_fallback(a) == Str(<<".">> \o a.basePath)

\* getVaultPath()
getVaultPath(a) == IF a.fs THEN Str(a.basePath) ELSE [t |-> "null"]

\* the routine without its busy guard
AlreadyRunning_never(flag) == FALSE

\* the busy guard
AlreadyRunning(flag) == flag

\* the flag cleared at the end of the try block instead of in a finally block
IsRunningAfter_notOnError(result) == result = "error"

\* the finally block: the value of isRunning after a cycle ended with this result
IsRunningAfter(result) == FALSE

\* a callback that ignores the error exec reports
run_neverRejects(o) ==
    [rejected |-> FALSE, value |-> [stdout |-> Str(o.stdout), stderr |-> Str(o.stderr)]]

\* run(): the promise rejects with {error, stdout, stderr} when exec reports an
\* error and resolves with {stdout, stderr} otherwise
run(o) ==
    IF o.error # NoError
    THEN [rejected |-> TRUE,
          value |-> [error |-> o.error, stdout |-> Str(o.stdout), stderr |-> Str(o.stderr)]]
    ELSE [rejected |-> FALSE,
          value |-> [stdout |-> Str(o.stdout), stderr |-> Str(o.stderr)]]

\* (stderr || stdout || e?.message || String(e)).trim()
DiagnosticText(e) ==
    LET stdout == Nullish(Get(e, "stdout"), Str(<<>>))
        stderr == Nullish(Get(e, "stderr"), Str(<<>>))
    IN  Trim(Or(stderr, Or(stdout, Or(Get(e, "message"), Str(ObjectObject)))).v)

\* /nothing to commit/i.test(msg)
RegexTest(msg) ==
    \E i \in 1..(Len(msg) - Len(NothingToCommit) + 1) :
        \A j \in 1..Len(NothingToCommit) :
            Lower(msg[i + j - 1]) = Lower(NothingToCommit[j])

\* a commit step without the tolerance of "nothing to commit"
CommitCatchRethrows_always(e) == TRUE

\* the catch around the commit command: whether it throws e again
CommitCatchRethrows(e) == ~RegexTest(DiagnosticText(e))

\* the notice of the outer catch
ErrorNotice(e) == ErrorNoticePrefix \o Slice(DiagnosticText(e), NoticeLimit)

\* Number.prototype.toString of an integer n >= 0
RECURSIVE toString(_)
toString(n) ==
    IF n < 10 THEN <<Digits[n + 1]>>
    ELSE toString(n \div 10) \o <<Digits[(n % 10) + 1]>>

\* s.padStart(n, c)
padStart(s, n, c) == IF Len(s) >= n THEN s ELSE Repeat(c, n - Len(s)) \o s

AutoCommitAt == <<"a","u","t","o"," ","c","o","m","m","i","t"," ","a","t"," ">>

\* a message with the month as getMonth() gives it
buildCommitMessage_zeroBasedMonth(d) ==
    AutoCommitAt \o toString(d.month) \o <<"-">> \o toString(d.date) \o <<"-">>
        \o toString(d.fullYear) \o <<" ">> \o toString(d.hours) \o <<":">>
        \o padStart(toString(d.minutes), 2, "0")

\* buildCommitMessage() when new Date() reads d
buildCommitMessage(d) ==
    LET MM   == d.month + 1
        DD   == d.date
        YYYY == d.fullYear
        hh   == d.hours
        mm   == padStart(toString(d.minutes), 2, "0")
    IN  AutoCommitAt \o toString(MM) \o <<"-">> \o toString(DD) \o <<"-">>
            \o toString(YYYY) \o <<" ">> \o toString(hh) \o <<":">> \o mm

\* the cycle c goes on: it starts cmd and awaits it
Await(c, pc, cmd, recovered) ==
    [done |-> FALSE,
     cycle |-> [c EXCEPT !.pc = pc, !.cmds = Append(c.cmds, cmd),
                         !.recovered = c.recovered \o recovered],
     issued |-> <<cmd>>, notices |-> <<>>, result |-> "none", rejected |-> FALSE]

\* a catch that runs the failed command once more
Caught_retries(c, e) ==
    [done |-> FALSE,
     cycle |-> [c EXCEPT !.cmds = Append(c.cmds, c.cmds[Len(c.cmds)])],
     issued |-> <<c.cmds[Len(c.cmds)]>>, notices |-> <<>>, result |-> "none",
     rejected |-> FALSE]

\* the cycle c ends in the outer catch with the rejection e: the catch shows the
\* notice, logs e and does not throw
Caught(c, e) ==
    [done |-> TRUE, cycle |-> c, issued |-> <<>>,
     notices |-> <<ErrorNotice(e)>>, result |-> "error", rejected |-> FALSE]

\* the cycle c ends after the push
Pushed(c) ==
    [done |-> TRUE, cycle |-> c, issued |-> <<>>, notices |-> <<>>, result |-> "success",
     rejected |-> FALSE]

\* commitAndPush from the await of the command c.pc, which exec ended with outcome
\* o; d is what the clock reads when the message is built, after verify
Resume(c, o, d) ==
    LET r == run(o)
    IN  CASE c.pc = "verify" ->
                IF r.rejected THEN Caught(c, r.value)
                ELSE Await([c EXCEPT !.now = d, !.msg = buildCommitMessage(d)],
                           "stage", StageCmd, <<>>)
          [] c.pc = "stage" ->
                IF r.rejected THEN Caught(c, r.value)
                ELSE Await(c, "commit", CommitCmd, <<>>)
          [] c.pc = "commit" ->
                IF r.rejected /\ CommitCatchRethrows(r.value) THEN Caught(c, r.value)
                ELSE Await(c, "push", PushCmd, IF r.rejected THEN <<o>> ELSE <<>>)
          [] c.pc = "push" ->
                IF r.rejected THEN Caught(c, r.value)
                ELSE Pushed(c)

RemoveAt(q, i) == SubSeq(q, 1, i - 1) \o SubSeq(q, i + 1, Len(q))

\* a commitAndPush whose busy guard returns from inside the try, so that the
\* finally clears the flag for a rejected invocation too
CommitAndPush_guardInTry(type) ==
    IF AlreadyRunning(isRunning)
    THEN /\ lastEvent' = Event(type, FALSE, <<AlreadyRunningNotice>>, <<>>)
         /\ isRunning' = FALSE
         /\ UNCHANGED <<cycles, lastCycle>>
    ELSE IF ~Truthy(getVaultPath(adapter))
    THEN /\ isRunning' = IsRunningAfter("desktop only")
         /\ lastCycle' = [result |-> "desktop only", cmds |-> <<>>,
                          notices |-> <<DesktopOnlyNotice>>, recovered |-> <<>>,
                          rejected |-> FALSE]
         /\ lastEvent' = Event(type, TRUE, <<DesktopOnlyNotice>>, <<>>)
         /\ UNCHANGED cycles
    ELSE /\ isRunning' = TRUE
         /\ cycles' = Append(cycles, [pc |-> "verify", cmds |-> <<VerifyCmd>>,
                                      recovered |-> <<>>, now |-> NoDate, msg |-> <<>>])
         /\ lastCycle' = NoCycle
         /\ lastEvent' = Event(type, TRUE, <<>>, <<VerifyCmd>>)

\* commitAndPush() up to its first await (or to its end), called by a step of
\* the given kind
CommitAndPush(type) ==
    IF AlreadyRunning(isRunning)
    THEN /\ lastEvent' = Event(type, FALSE, <<AlreadyRunningNotice>>, <<>>)
         /\ UNCHANGED cycleVars
    ELSE IF ~Truthy(getVaultPath(adapter))
    THEN /\ isRunning' = IsRunningAfter("desktop only")
         /\ lastCycle' = [result |-> "desktop only", cmds |-> <<>>,
                          notices |-> <<DesktopOnlyNotice>>, recovered |-> <<>>,
                          rejected |-> FALSE]
         /\ lastEvent' = Event(type, TRUE, <<DesktopOnlyNotice>>, <<>>)
         /\ UNCHANGED cycles
    ELSE /\ isRunning' = TRUE
         /\ cycles' = Append(cycles, [pc |-> "verify", cmds |-> <<VerifyCmd>>,
                                      recovered |-> <<>>, now |-> NoDate, msg |-> <<>>])
         /\ lastCycle' = NoCycle
         /\ lastEvent' = Event(type, TRUE, <<>>, <<VerifyCmd>>)

\* the callback of exec for the command that cycle i awaits, with outcome o, while
\* the clock reads d
ExecDone(i, o, d) ==
    LET c == cycles[i]
        r == Resume(c, o, d)
    IN  /\ IF r.done
           THEN /\ cycles' = RemoveAt(cycles, i)
                /\ isRunning' = IsRunningAfter(r.result)
                /\ lastCycle' = [result |-> r.result, cmds |-> c.cmds,
                                 notices |-> r.notices, recovered |-> c.recovered,
                                 rejected |-> r.rejected]
           ELSE /\ cycles' = [cycles EXCEPT ![i] = r.cycle]
                /\ UNCHANGED <<isRunning, lastCycle>>
        /\ lastEvent' = [Event("exec", FALSE, r.notices, r.issued) EXCEPT
                            !.cmd = c.pc, !.outcome = o, !.finished = r.done]
        /\ UNCHANGED <<onloadPc, adapter, settings, saveVars, schedVars>>

(***************************************************************************)
(* Triggers                                                                *)
(***************************************************************************)
\* a click on the ribbon icon
RibbonClick ==
    /\ onloadPc = "loaded"
    /\ CommitAndPush("click")
    /\ UNCHANGED <<onloadPc, adapter, settings, saveVars, schedVars>>

\* a timer callback that calls the routine without looking at the flag
TickAdmits_always(flag) == TRUE

\* the callback of the timer checks the flag itself before it calls the routine
TickAdmits(flag) == ~flag

\* the live timer t fires
TimerFire(t) ==
    /\ IF TickAdmits(isRunning)
       THEN CommitAndPush("tick")
       ELSE /\ lastEvent' = Event("tick", FALSE, <<>>, <<>>)
            /\ UNCHANGED cycleVars
    /\ UNCHANGED <<onloadPc, adapter, settings, saveVars, schedVars>>

(***************************************************************************)
(* onload                                                                  *)
(***************************************************************************)
\* Object.assign({}, DEFAULT_SETTINGS, await this.loadData())
LoadSettings(data) ==
    [intervalMinutes |-> IF data.has THEN data.intervalMinutes
                         ELSE DEFAULT_SETTINGS.intervalMinutes,
     loaded |-> TRUE]

\* onload() up to the await of loadSettings
Onload ==
    /\ onloadPc = "unloaded"
    /\ onloadPc' = "loading"
    /\ lastEvent' = Event("onload", FALSE, <<>>, <<>>)
    /\ UNCHANGED <<adapter, settings, saveVars, schedVars, cycleVars>>

\* an onload that starts the scheduler and leaves the first run to the timer
LoadDataDone_noRun(data) ==
    /\ onloadPc = "loading"
    /\ onloadPc' = "loaded"
    /\ settings' = LoadSettings(data)
    /\ Reschedule(settings')
    /\ lastEvent' = Event("load", FALSE, <<>>, <<>>)
    /\ UNCHANGED <<adapter, saveVars, cycleVars>>

\* loadData resolved: the rest of onload, which registers the icon and the
\* settings tab, starts the scheduler and runs the routine once
LoadDataDone(data) ==
    /\ onloadPc = "loading"
    /\ onloadPc' = "loaded"
    /\ settings' = LoadSettings(data)
    /\ Reschedule(settings')
    /\ CommitAndPush("load")
    /\ UNCHANGED <<adapter, saveVars>>

\* loadData rejected: onload ends there
LoadDataFailed ==
    /\ onloadPc = "loading"
    /\ onloadPc' = "failed"
    /\ lastEvent' = Event("loadFailed", FALSE, <<>>, <<>>)
    /\ UNCHANGED <<adapter, settings, saveVars, schedVars, cycleVars>>

(***************************************************************************)
(* Settings tab                                                            *)
(***************************************************************************)
\* isFinite(n) && n >= 0 ? n : 0
Coerce(n) == IF isFinite(n) /\ GeqZero(n) THEN n ELSE Int2Num(0)

\* the change handler of the interval field up to the await of saveSettings
SettingsChange(value) ==
    LET n == parseFloat(value)
    IN  /\ onloadPc = "loaded"
        /\ Len(pendingSaves) < MaxPendingSaves
        /\ nextHandle + Len(pendingSaves) <= MaxHandles
        /\ settings' = [settings EXCEPT !.intervalMinutes = Coerce(n)]
        /\ pendingSaves' = Append(pendingSaves, Coerce(n))
        /\ overlap' = [overlap EXCEPT !.handlers = OneMore[@], !.latest = Coerce(n)]
        /\ lastEvent' = [Event("change", FALSE, <<>>, <<>>) EXCEPT
                            !.wrote = Coerce(n)]
        /\ UNCHANGED <<onloadPc, adapter, schedVars, cycleVars>>

\* the handler i of pendingSaves ends: what is left of the overlap
Ended(i, ov) == IF RemoveAt(pendingSaves, i) = <<>> THEN NoOverlap ELSE ov

\* a reschedule that also resets the run state
SaveDone_resetsRun(i) ==
    /\ pendingSaves' = RemoveAt(pendingSaves, i)
    /\ overlap' = Ended(i, overlap)
    /\ Reschedule(settings)
    /\ isRunning' = FALSE
    /\ cycles' = <<>>
    /\ lastEvent' = [Event("saved", FALSE, <<>>, <<>>) EXCEPT
                        !.wrote = pendingSaves[i], !.overlap = overlap]
    /\ UNCHANGED <<onloadPc, adapter, settings, lastCycle>>

\* a handler that reschedules with the interval it wrote itself
SaveDone_usesLocal(i) ==
    /\ pendingSaves' = RemoveAt(pendingSaves, i)
    /\ overlap' = Ended(i, overlap)
    /\ Reschedule([settings EXCEPT !.intervalMinutes = pendingSaves[i]])
    /\ lastEvent' = [Event("saved", FALSE, <<>>, <<>>) EXCEPT
                        !.wrote = pendingSaves[i], !.overlap = overlap]
    /\ UNCHANGED <<onloadPc, adapter, settings, cycleVars>>

\* saveData resolved for the suspended handler i: it goes on to reschedule, which
\* reads the settings as they are now
SaveDone(i) ==
    /\ pendingSaves' = RemoveAt(pendingSaves, i)
    /\ overlap' = Ended(i, overlap)
    /\ Reschedule(settings)
    /\ lastEvent' = [Event("saved", FALSE, <<>>, <<>>) EXCEPT
                        !.wrote = pendingSaves[i], !.overlap = overlap]
    /\ UNCHANGED <<onloadPc, adapter, settings, cycleVars>>

\* saveData rejected for the suspended handler i: it ends at the await
SaveFailed(i) ==
    LET ov == [overlap EXCEPT !.handlers = "other"]
    IN  /\ pendingSaves' = RemoveAt(pendingSaves, i)
        /\ overlap' = Ended(i, ov)
        /\ lastEvent' = [Event("saveFailed", FALSE, <<>>, <<>>) EXCEPT
                            !.wrote = pendingSaves[i], !.overlap = ov]
        /\ UNCHANGED <<onloadPc, adapter, settings, schedVars, cycleVars>>

(***************************************************************************)
(* Specification                                                           *)
(***************************************************************************)
\* the clock is read only in the step that follows verify
ClockReadings(c, dates) == IF c.pc = "verify" THEN dates ELSE {NoDate}

Next ==
    \/ Onload
    \/ \E data \in LoadedData : LoadDataDone(data)
    \/ LoadDataFailed
    \/ RibbonClick
    \/ \E t \in timers : TimerFire(t)
    \/ \E i \in DOMAIN cycles, o \in ExecOutcomes :
          \E d \in ClockReadings(cycles[i], Dates) : ExecDone(i, o, d)
    \/ \E value \in ChangeInputs : SettingsChange(value)
    \/ \E i \in DOMAIN pendingSaves : SaveDone(i)
    \/ \E i \in DOMAIN pendingSaves : SaveFailed(i)

Spec == Init /\ [][Next]_vars

\* The plugin when every exec call completes: while a cycle awaits a command, the
\* callback of exec is eventually called, with success or with an error. All the
\* steps of the plugin, over one outcome of each kind (success, a failed command,
\* a commit with nothing to commit, git not started) and fewer settings.
FairOutcomes ==
    { ExecOk,
      [error |-> ExecError(CommandFailed), stdout |-> <<>>,
       stderr |-> <<"f","a","t","a","l",":"," ","u","n","a","b","l","e"," ","t","o"," ","a","u","t","h">>],
      [error |-> ExecError(CommandFailed), stdout |-> <<>>,
       stderr |-> <<"h","i","n","t",":"," ","N","o","t","h","i","n","g"," ","T","o"," ","C","o","m","m","i","t">>],
      [error |-> ExecError(SpawnFailed), stdout |-> <<>>, stderr |-> <<>>] }

FairData ==
    { [has |-> FALSE, intervalMinutes |-> NaN], [has |-> TRUE, intervalMinutes |-> [k |-> "null"]] }

FairInputs == { <<"0">>, <<"0",".","1">> }

FairDates == { DateOf(2, 7, 2024, 9, 5) }

FairNext ==
    \/ Onload
    \/ \E data \in FairData : LoadDataDone(data)
    \/ LoadDataFailed
    \/ RibbonClick
    \/ \E t \in timers : TimerFire(t)
    \/ \E i \in DOMAIN cycles, o \in FairOutcomes :
          \E d \in ClockReadings(cycles[i], FairDates) : ExecDone(i, o, d)
    \/ \E value \in FairInputs : SettingsChange(value)
    \/ \E i \in DOMAIN pendingSaves : SaveDone(i)
    \/ \E i \in DOMAIN pendingSaves : SaveFailed(i)

FairSpec ==
    /\ Init
    /\ [][FairNext]_vars
    /\ WF_vars(\E i \in DOMAIN cycles, o \in FairOutcomes, d \in FairDates : ExecDone(i, o, d))

\* The commit message over many clock readings: a vault on disk, the default
\* settings, and commands that all succeed.
InitMsg == Init /\ adapter.fs /\ adapter.basePath # <<>>

NextMsg ==
    \/ Onload
    \/ LoadDataDone([has |-> FALSE, intervalMinutes |-> NaN])
    \/ RibbonClick
    \/ \E i \in DOMAIN cycles :
          \E d \in ClockReadings(cycles[i], AllDates) : ExecDone(i, ExecOk, d)

SpecMsg == InitMsg /\ [][NextMsg]_vars

(***************************************************************************)
(* Properties                                                              *)
(***************************************************************************)
Triggers == {"click", "tick", "load"}

Failed(o) == o.error # NoError

IsPrefix(p, q) == Len(p) <= Len(q) /\ SubSeq(q, 1, Len(p)) = p

CommandOrder == <<VerifyCmd, StageCmd, CommitCmd, PushCmd>>

PcOrder == <<"verify", "stage", "commit", "push">>

CleanTreeText == <<"n","o","t","h","i","n","g"," ","t","o"," ","c","o","m","m","i","t",","," ","w","o","r","k","i","n","g"," ","t","r","e","e"," ","c","l","e","a","n">>

\* the phrase occurs in the text, whatever the case of its letters
HasPhrase(text) ==
    \E i \in 1..Len(text) :
        /\ i + Len(NothingToCommit) - 1 <= Len(text)
        /\ \A j \in 1..Len(NothingToCommit) :
              \/ text[i + j - 1] = NothingToCommit[j]
              \/ /\ text[i + j - 1] \in DOMAIN LowerCase
                 /\ LowerCase[text[i + j - 1]] = NothingToCommit[j]

\* the timer the specification asks for after reschedule() with the interval v:
\* none when v is not finite or v <= 0, else one, recorded in the handle, of
\* period max(10000, round(v * 60000)) ms.  With v = n/d and 60000/d = a/b, m is
\* round(v * 60000) when m - 1/2 <= n*a/b < m + 1/2.
TimerAsSpecified(v) ==
    IF v.k # "fin" \/ v.n <= 0
    THEN timers = {} /\ autoIntervalHandle = Null
    ELSE \E t \in timers :
            LET g  == GCD(60000, v.d)
                a  == 60000 \div g
                b  == v.d \div g
                x2 == 2 * v.n * a
            IN  /\ timers = {t}
                /\ t.id = autoIntervalHandle
                /\ \/ t.ms = 10000 /\ x2 < 2 * 10000 * b + b
                   \/ t.ms > 10000 /\ 2 * t.ms * b - b <= x2 /\ x2 < 2 * t.ms * b + b

\* C1: at most one cycle is in flight at any moment, and a trigger (the run of
\* onload, a click, a timer tick) that arrives while a cycle is in flight is
\* dropped: it starts no cycle and no git command and leaves the cycle in flight as
\* it is; the step that ends a cycle starts nothing either.
C1_OneCycleAtATime ==
    [][ /\ Len(cycles') <= 1
        /\ (cycles # <<>> /\ lastEvent'.type \in Triggers) =>
              /\ cycles' = cycles
              /\ lastEvent'.issued = <<>>
              /\ ~lastEvent'.admitted
        /\ (lastEvent'.type = "exec" /\ lastEvent'.finished) =>
              /\ cycles' = <<>>
              /\ lastEvent'.issued = <<>> ]_vars

\* a timer tick was dropped while a cycle was in flight
C1_Witness ==
    /\ lastEvent.type = "tick"
    /\ ~lastEvent.admitted
    /\ Len(cycles) = 1

\* C2: when a cycle has ended (success, failure of any of the four commands, or
\* the desktop-only abort) the run-state flag is false, and the next click or tick
\* is admitted and starts a cycle.
C2_FlagClearedAfterCycle ==
    /\ lastEvent.finished => ~isRunning
    /\ lastCycle # NoCycle => ~isRunning /\ cycles = <<>>
    /\ (lastEvent.type \in {"click", "tick"} /\ lastEvent.after # "none") =>
          /\ lastEvent.admitted
          /\ \/ isRunning /\ Len(cycles) = 1 /\ lastEvent.issued = <<VerifyCmd>>
             \/ lastCycle.result = "desktop only"

\* a tick after a failed cycle was admitted and started a cycle
C2_Witness ==
    /\ lastEvent.type = "tick"
    /\ lastEvent.after = "error"
    /\ lastEvent.admitted
    /\ Len(cycles) = 1

\* C3: a cycle starts its commands in the order verify, stage, commit, push, each
\* from the step in which the one before it completed; a failed verify or stage
\* ends the cycle with no further command, and push is started only when commit
\* succeeded or failed with "nothing to commit" in its output.
C3_CommandsInOrder ==
    /\ \A i \in DOMAIN cycles :
          /\ cycles[i].cmds # <<>>
          /\ IsPrefix(cycles[i].cmds, CommandOrder)
          /\ cycles[i].pc = PcOrder[Len(cycles[i].cmds)]
    /\ IsPrefix(lastCycle.cmds, CommandOrder)
    /\ lastEvent.type = "exec" =>
          /\ Len(lastEvent.issued) <= 1
          /\ (lastEvent.cmd = "verify" /\ Failed(lastEvent.outcome)) =>
                lastEvent.issued = <<>> /\ lastEvent.finished
                                        /\ lastCycle.cmds = <<VerifyCmd>>
          /\ (lastEvent.cmd = "stage" /\ Failed(lastEvent.outcome)) =>
                lastEvent.issued = <<>> /\ lastEvent.finished
                                        /\ lastCycle.cmds = <<VerifyCmd, StageCmd>>
          /\ lastEvent.issued = <<StageCmd>> =>
                lastEvent.cmd = "verify" /\ ~Failed(lastEvent.outcome)
          /\ lastEvent.issued = <<CommitCmd>> =>
                lastEvent.cmd = "stage" /\ ~Failed(lastEvent.outcome)
          /\ lastEvent.issued = <<PushCmd>> =>
                /\ lastEvent.cmd = "commit"
                /\ \/ ~Failed(lastEvent.outcome)
                   \/ HasPhrase(lastEvent.outcome.stderr)
                   \/ HasPhrase(lastEvent.outcome.stdout)

\* a cycle ended at a failed stage, after verify and stage only
C3_Witness ==
    /\ lastEvent.type = "exec"
    /\ lastEvent.cmd = "stage"
    /\ Failed(lastEvent.outcome)
    /\ lastCycle.cmds = <<VerifyCmd, StageCmd>>

\* C4 (as claimed): a failed commit goes on to push if and only if the phrase
\* "nothing to commit" occurs, in any case of letters, in the stderr, the stdout or
\* the error text of the failed command, also when it is in stdout and stderr is
\* not empty and does not hold it.
C4_ContinuesIffPhraseAnywhere ==
    (lastEvent.type = "exec" /\ lastEvent.cmd = "commit" /\ Failed(lastEvent.outcome)) =>
        ( (lastEvent.issued = <<PushCmd>> /\ ~lastEvent.finished)
          <=> \/ HasPhrase(lastEvent.outcome.stderr)
              \/ HasPhrase(lastEvent.outcome.stdout)
              \/ HasPhrase(lastEvent.outcome.error.message.v) )

\* a failed commit whose diagnostic text is "nothing to commit, working tree clean"
CleanFailure(o) ==
    /\ Failed(o)
    /\ \/ o.stderr = CleanTreeText
       \/ o.stderr = <<>> /\ o.stdout = CleanTreeText

\* C5: a commit that fails with the diagnostic text "nothing to commit, working
\* tree clean" is followed by push, and when that push succeeds the cycle ends as
\* a success: no notice is shown and the run-state flag is cleared.
C5_CleanTreeIsSuccess ==
    /\ (lastEvent.type = "exec" /\ lastEvent.cmd = "commit"
          /\ CleanFailure(lastEvent.outcome)) =>
          /\ lastEvent.issued = <<PushCmd>>
          /\ ~lastEvent.finished
          /\ lastEvent.notices = <<>>
    /\ \A i \in DOMAIN cycles :
          cycles[i].pc = "push" => cycles[i].cmds = CommandOrder
    /\ (lastEvent.type = "exec" /\ lastEvent.cmd = "push" /\ ~Failed(lastEvent.outcome)) =>
          /\ lastEvent.finished
          /\ lastCycle.result = "success"
          /\ lastCycle.notices = <<>>
          /\ lastEvent.notices = <<>>
          /\ ~isRunning

\* a cycle whose commit failed on a clean tree ended with a successful push
C5_Witness ==
    /\ lastEvent.type = "exec"
    /\ lastEvent.cmd = "push"
    /\ ~Failed(lastEvent.outcome)
    /\ lastCycle.recovered # <<>>
    /\ CleanFailure(lastCycle.recovered[1])
    /\ lastCycle.result = "success"

\* the best diagnostic text of a failed command as the specification chooses it:
\* stderr if not empty, else stdout if not empty, else the message of the error
BestDiagnostic(o) ==
    IF o.stderr # <<>> THEN o.stderr
    ELSE IF o.stdout # <<>> THEN o.stdout
    ELSE o.error.message.v

\* C6 (as claimed): a cycle that ends in a failure shows one notice, which holds
\* the first 400 characters of the trimmed best diagnostic text; with stderr and
\* stdout both empty that is the message of the error.
C6_NoticeShowsBestDiagnostic ==
    (lastEvent.type = "exec" /\ lastEvent.finished /\ lastCycle.result = "error") =>
        LET text == Trim(BestDiagnostic(lastEvent.outcome))
            most == IF Len(text) > 400 THEN 400 ELSE Len(text)
        IN  lastEvent.notices = <<ErrorNoticePrefix \o SubSeq(text, 1, most)>>

\* C7: the commit routine invoked while the run-state flag is true starts no
\* subprocess and shows exactly one notice, "already running".
C7_BusyInvocationOnlyNotifies ==
    [][ (isRunning /\ lastEvent'.type = "click") =>
            /\ lastEvent'.issued = <<>>
            /\ lastEvent'.notices = <<AlreadyRunningNotice>>
            /\ cycles' = cycles
            /\ lastCycle' = lastCycle ]_vars

\* a click was rejected by the busy guard while a command was awaited
C7_Witness ==
    /\ lastEvent.type = "click"
    /\ ~lastEvent.admitted
    /\ lastEvent.notices = <<AlreadyRunningNotice>>
    /\ isRunning
    /\ Len(cycles) = 1

\* C8: after reschedule() (called by onload and by the change handler) with the
\* interval v: no timer when v is not finite or v <= 0, else exactly one timer
\* of period max(10000, round(v * 60000)) ms.
C8_PeriodAfterReschedule ==
    lastEvent.type \in {"load", "saved"} =>
        TimerAsSpecified(Number(settings.intervalMinutes))

\* reschedule() installed the least period for an interval of 0.1 minute
C8_Witness ==
    /\ lastEvent.type = "saved"
    /\ settings.intervalMinutes = Frac(1, 10)
    /\ \E t \in timers : t.ms = 10000

\* C9: at most one repeating timer is live, and it is the one the handle records.
C9_SingleLiveTimer ==
    /\ Cardinality(timers) <= 1
    /\ \A t \in timers : t.id = autoIntervalHandle
    /\ autoIntervalHandle # Null => \E t \in timers : t.id = autoIntervalHandle

\* a third timer replaced the second, which had replaced the first
C9_Witness ==
    /\ Cardinality(timers) = 1
    /\ {1, 2} \subseteq registered
    /\ autoIntervalHandle = 3

\* C10 (as claimed): when a change handler has finished, whether saving the
\* settings succeeded or failed, the interval setting is a finite number >= 0 and
\* the live timer is the one the setting asks for.
C10_TimerFollowsSettingAfterChange ==
    lastEvent.type \in {"saved", "saveFailed"} =>
        /\ isFinite(settings.intervalMinutes) /\ GeqZero(settings.intervalMinutes)
        /\ TimerAsSpecified(settings.intervalMinutes)

\* C11: a timer that fires while the run-state flag is true is skipped in silence:
\* it starts no subprocess, shows no notice and leaves the flag and the cycle in
\* flight as they are; a timer that fires while the flag is false starts a cycle.
C11_BusyTickIsSilent ==
    [][ lastEvent'.type = "tick" =>
            IF isRunning
            THEN /\ lastEvent'.issued = <<>>
                 /\ lastEvent'.notices = <<>>
                 /\ UNCHANGED <<isRunning, cycles, lastCycle>>
            ELSE \/ /\ isRunning'
                    /\ Len(cycles') = 1
                    /\ cycles'[1].pc = "verify"
                    /\ cycles'[1].cmds = <<VerifyCmd>>
                    /\ lastEvent'.issued = <<VerifyCmd>>
                 \/ /\ ~Truthy(getVaultPath(adapter))
                    /\ lastCycle'.result = "desktop only" ]_vars

\* a tick was skipped, with no notice, while the commit command was awaited
C11_Witness ==
    /\ lastEvent.type = "tick"
    /\ lastEvent.notices = <<>>
    /\ lastEvent.issued = <<>>
    /\ isRunning
    /\ Len(cycles) = 1
    /\ cycles[1].pc = "commit"

\* C12: reschedule() called while a cycle is in flight does not interrupt it: the
\* run-state flag and the step of the cycle stay as they are, and the cycle goes on
\* to start its remaining commands in order, whatever the timers are.
C12_RescheduleLeavesCycle ==
    [][ /\ lastEvent'.type = "saved" => UNCHANGED <<isRunning, cycles, lastCycle>>
        /\ (lastEvent'.type = "exec" /\ ~lastEvent'.finished) =>
              /\ Len(cycles') = Len(cycles)
              /\ \A i \in DOMAIN cycles :
                    /\ IsPrefix(cycles[i].cmds, cycles'[i].cmds)
                    /\ Len(cycles'[i].cmds) = Len(cycles[i].cmds) + 1
                    /\ IsPrefix(cycles'[i].cmds, CommandOrder)
              /\ UNCHANGED <<timers, autoIntervalHandle>> ]_vars

\* reschedule() ran for a settings change while the stage command was awaited
C12_Witness ==
    /\ lastEvent.type = "saved"
    /\ isRunning
    /\ Len(cycles) = 1
    /\ cycles[1].pc = "stage"
    /\ nextHandle > 2

\* no working directory on disk: the adapter is no FileSystemAdapter, or its
\* base path is empty
NoWorkingDirectory == ~adapter.fs \/ adapter.basePath = <<>>

\* C13: with no working directory on disk the routine shows the "desktop only"
\* notice and nothing else, starts no git command, and ends with the run-state
\* flag false.
C13_DesktopOnlyAbort ==
    NoWorkingDirectory =>
        /\ cycles = <<>>
        /\ ~isRunning
        /\ lastCycle.cmds = <<>>
        /\ lastEvent.issued = <<>>
        /\ lastEvent.type \in Triggers =>
              /\ lastEvent.admitted
              /\ lastEvent.notices = <<DesktopOnlyNotice>>
              /\ lastCycle.result = "desktop only"
              /\ lastCycle.notices = <<DesktopOnlyNotice>>

\* a click with an adapter that is no FileSystemAdapter ended in the notice
C13_Witness ==
    /\ ~adapter.fs
    /\ lastEvent.type = "click"
    /\ lastEvent.notices = <<DesktopOnlyNotice>>
    /\ lastCycle.result = "desktop only"
    /\ ~isRunning

NoDuplicates(q) == \A i, j \in DOMAIN q : i # j => q[i] # q[j]

\* what C14 says of every cycle apart from its failures: each command is started
\* at most once, at most one notice is shown, and only by the step that ends the
\* cycle, and the promise of the routine is never rejected
OncePerCycle ==
    /\ \A i \in DOMAIN cycles : NoDuplicates(cycles[i].cmds)
    /\ NoDuplicates(lastCycle.cmds)
    /\ Len(lastCycle.notices) <= 1
    /\ ~lastCycle.rejected
    /\ lastEvent.type = "exec" =>
          /\ Len(lastEvent.notices) <= 1
          /\ ~lastEvent.finished => lastEvent.notices = <<>>

\* C14 (as claimed): no retries: each of the four commands is started at most once
\* in a cycle, every failure of a command ends the cycle, at most one error notice
\* is shown per cycle, and the routine never passes an error on to its caller.
C14_EveryFailureTerminal ==
    /\ OncePerCycle
    /\ (lastEvent.type = "exec" /\ Failed(lastEvent.outcome)) =>
          /\ lastEvent.finished
          /\ lastEvent.issued = <<>>
          /\ lastCycle.result = "error"

\* C14 (amended): as claimed, but a failure of the commit command with "nothing to
\* commit" in its diagnostic text does not end the cycle: push is started after it;
\* every other failure ends the cycle.
C14_EveryUnrecoveredFailureTerminal ==
    /\ OncePerCycle
    /\ (lastEvent.type = "exec" /\ Failed(lastEvent.outcome)) =>
          \/ /\ lastEvent.finished
             /\ lastEvent.issued = <<>>
             /\ lastCycle.result = "error"
             /\ Len(lastCycle.notices) = 1
          \/ /\ lastEvent.cmd = "commit"
             /\ \/ HasPhrase(lastEvent.outcome.stderr)
                \/ lastEvent.outcome.stderr = <<>> /\ HasPhrase(lastEvent.outcome.stdout)
             /\ ~lastEvent.finished
             /\ lastEvent.issued = <<PushCmd>>

\* a cycle ended at a failed push with one notice, each command started once
C14_Witness ==
    /\ lastEvent.type = "exec"
    /\ lastEvent.cmd = "push"
    /\ Failed(lastEvent.outcome)
    /\ lastCycle.cmds = CommandOrder
    /\ Len(lastCycle.notices) = 1
    /\ ~lastCycle.rejected

\* C15: the step of onload that follows the load of the settings starts the
\* scheduler and then exactly one cycle, whatever the interval is (also when no
\* timer is installed); before that step there is no timer and no cycle, so no
\* tick can start a cycle ahead of it.
C15_OnloadRunsOnce ==
    /\ onloadPc # "loaded" =>
          /\ timers = {}
          /\ cycles = <<>>
          /\ ~isRunning
          /\ lastCycle = NoCycle
    /\ lastEvent.type = "load" =>
          /\ onloadPc = "loaded"
          /\ lastEvent.admitted
          /\ lastEvent.after = "none"
          /\ TimerAsSpecified(Number(settings.intervalMinutes))
          /\ IF NoWorkingDirectory
             THEN lastCycle.result = "desktop only" /\ cycles = <<>>
             ELSE /\ isRunning
                  /\ Len(cycles) = 1
                  /\ cycles[1].pc = "verify"
                  /\ lastEvent.issued = <<VerifyCmd>>

\* onload started its cycle with the timer disabled by the loaded interval
C15_Witness ==
    /\ lastEvent.type = "load"
    /\ timers = {}
    /\ isRunning
    /\ Len(cycles) = 1

\* the text s is the decimal numeral of n, with no leading zero
IsNumeral(s, n) ==
    /\ s # <<>>
    /\ \A i \in DOMAIN s : IsDigit(s[i])
    /\ Len(s) > 1 => s[1] # "0"
    /\ DigitsVal(s) = n

\* msg is "auto commit at M-D-YYYY h:mm" for the clock reading d: month (counted
\* from 1), day, year and hour as numerals, the minute in exactly two digits
WellFormedMessage(msg, d) ==
    \E a, b, h \in 1..2, y \in 1..4 :
        LET p  == Len(AutoCommitAt)
            i1 == p + a + 1
            i2 == i1 + b + 1
            i3 == i2 + y + 1
            i4 == i3 + h + 1
        IN  /\ Len(msg) = i4 + 2
            /\ SubSeq(msg, 1, p) = AutoCommitAt
            /\ IsNumeral(SubSeq(msg, p + 1, i1 - 1), d.month + 1)
            /\ msg[i1] = "-"
            /\ IsNumeral(SubSeq(msg, i1 + 1, i2 - 1), d.date)
            /\ msg[i2] = "-"
            /\ IsNumeral(SubSeq(msg, i2 + 1, i3 - 1), d.fullYear)
            /\ msg[i3] = " "
            /\ IsNumeral(SubSeq(msg, i3 + 1, i4 - 1), d.hours)
            /\ msg[i4] = ":"
            /\ \A i \in {i4 + 1, i4 + 2} : IsDigit(msg[i])
            /\ DigitsVal(SubSeq(msg, i4 + 1, i4 + 2)) = d.minutes

March7 == DateOf(2, 7, 2024, 9, 5)

March7Message == <<"a","u","t","o"," ","c","o","m","m","i","t"," ","a","t"," ","3","-","7","-","2","0","2","4"," ","9",":","0","5">>

\* C16: the commit message of a cycle is "auto commit at M-D-YYYY h:mm" for the
\* date and time read when it is built: month, day and hour unpadded, the minute
\* in two digits; for March 7, 2024, 9:05 it is "auto commit at 3-7-2024 9:05".
C16_CommitMessageFormat ==
    \A i \in DOMAIN cycles :
        cycles[i].pc # "verify" =>
            /\ WellFormedMessage(cycles[i].msg, cycles[i].now)
            /\ cycles[i].now = March7 => cycles[i].msg = March7Message

\* the message was built on March 7, 2024 at 9:05 and the commit command started
C16_Witness ==
    /\ Len(cycles) = 1
    /\ cycles[1].pc = "commit"
    /\ cycles[1].now = March7
    /\ cycles[1].msg = March7Message

\* C17: if every exec call completes, a cycle in flight finishes and the flag is
\* cleared; and in a step in which no exec call completes, a flag that is true
\* stays true, the cycle stays where it is, and a click or tick is dropped.
C17_CycleFinishesIfCommandsComplete ==
    /\ (isRunning ~> (~isRunning /\ cycles = <<>>))
    /\ [][ isRunning /\ lastEvent'.type # "exec" =>
              /\ isRunning'
              /\ cycles' = cycles
              /\ lastEvent'.type \in Triggers =>
                    ~lastEvent'.admitted /\ lastEvent'.issued = <<>> ]_vars

\* a cycle ended with a failed verify, and the flag is clear
C17_Witness ==
    /\ lastEvent.type = "exec"
    /\ lastEvent.finished
    /\ lastEvent.cmd = "verify"
    /\ Failed(lastEvent.outcome)
    /\ ~isRunning
    /\ cycles = <<>>

\* C18: a click or tick rejected by the busy guard leaves the flag true and the
\* cycle in flight as it is; the flag goes from true to false only in the step in
\* which the one cycle in flight, the cycle that set it, finishes.
C18_OnlyOwnCycleClearsFlag ==
    [][ /\ isRunning /\ lastEvent'.type \in {"click", "tick"} =>
              ~lastEvent'.admitted /\ isRunning' /\ cycles' = cycles
        /\ isRunning /\ ~isRunning' =>
              /\ lastEvent'.type = "exec"
              /\ lastEvent'.finished
              /\ Len(cycles) = 1
              /\ cycles' = <<>> ]_vars

\* a click was rejected while the cycle awaits push, and the flag is still true
C18_Witness ==
    /\ lastEvent.type = "click"
    /\ ~lastEvent.admitted
    /\ isRunning
    /\ Len(cycles) = 1
    /\ cycles[1].pc = "push"

\* C19: when exactly two change handlers overlapped and saveData resolved for
\* both, then once both have finished at most one timer is live, and it is the
\* timer for the value entered last (none if that value is 0), whichever of the
\* two handlers finished last.
C19_OverlappingChangesFollowLatest ==
    /\ lastEvent.type = "saved"
    /\ pendingSaves = <<>>
    /\ lastEvent.overlap.handlers = "two"
    => /\ Cardinality(timers) <= 1
       /\ TimerAsSpecified(lastEvent.overlap.latest)
       /\ lastEvent.overlap.latest = Int2Num(0) => timers = {}

\* two handlers overlapped, the one that entered its value first finished last,
\* and the timer is the one for the value entered last
C19_Witness ==
    /\ lastEvent.type = "saved"
    /\ pendingSaves = <<>>
    /\ lastEvent.overlap.handlers = "two"
    /\ lastEvent.wrote = Int2Num(0)
    /\ lastEvent.overlap.latest = Frac(1, 10)
    /\ Cardinality(timers) = 1

=============================================================================
